---- MODULE Spec2Model ----
(***************************************************************************)
(* kuberpak "unpack": Unpacker.Run loads the manifests of a bundle, builds *)
(* one immutable ConfigMap per manifest object and reconciles the          *)
(* ConfigMaps stored in the cluster against that desired list.             *)
(*                                                                         *)
(* Source: cmd/unpack/internal/unpacker/unpack.go.  Every call on          *)
(* u.Client (Get, List, Create, Delete) is one atomic step, and so is      *)
(* every local decision of the reconcile loop.                             *)
(***************************************************************************)
EXTENDS Integers, Sequences, FiniteSets, TLC

\* ------------------------------------------------------------------ bounds

\* Documents in the manifest file of one run.
MaxDocs == 2

\* Entries of the manifests directory where getObjects is followed entry by entry.
MaxEntries == 2

\* ------------------------------------------------------- program constants

\* hash[0:8]: the characters of the hex digest that go into a ConfigMap name.
HashPrefixLen == 8

\* ------------------------------------------------------------------ values

\* The unpacker processes: 1 and 3 are invoked for the same Bundle, 2 for another.
Procs == {1, 2, 3}

\* The unpacker whose runs the single-writer specifications follow.
Single == {1}

\* Two unpackers that run at the same time for different Bundles.
OtherBundle == {1, 2}

\* Two unpackers that run at the same time for the same Bundle.
SameBundle == {1, 3}

\* --namespace and --bundle-name of each unpacker process.
Namespace == "ns"

\* Bundle names, character by character.  The second name is the first
\* followed by "-" and eight hex characters.
BundleNameOf(p) == IF p = 2 THEN <<"b", "-", "d", "e", "0", "1", "2", "3", "4", "5">> ELSE <<"b">>

\* bundle.Spec.Image of the Bundle objects.
BundleImage == "quay.io/bundle:v1"

Digest1 == "quay.io/bundle@sha256:aaaa"

Digest2 == "quay.io/bundle@sha256:bbbb"

\* A value for "nothing" in the places Go holds nil or "".
Nil == <<>>

SeqUpTo(S, n) == UNION {[1..k -> S] : k \in 0..n}

Last(s) == s[Len(s)]

\* Manifest objects (unstructured.Unstructured): the fields the unpacker reads
\* and a revision standing for the rest of the content.
Deployment == [apiVersion |-> "apps/v1", kind |-> "Deployment", name |-> "web", namespace |-> "prod", rev |-> 1]

\* The Deployment with edited content whose digest shares the first 8 characters.
DeploymentAlt == [apiVersion |-> "apps/v1", kind |-> "Deployment", name |-> "web", namespace |-> "prod", rev |-> 2]

Service == [apiVersion |-> "v1", kind |-> "Service", name |-> "web", namespace |-> "prod", rev |-> 1]

ServiceEdited == [apiVersion |-> "v1", kind |-> "Service", name |-> "web", namespace |-> "prod", rev |-> 2]

Objects == {Deployment, DeploymentAlt, Service}

\* A document of a manifest stream: one the decoder accepts, or a malformed one.
GoodDoc(o) == [valid |-> TRUE, obj |-> o]

NoObject == [apiVersion |-> "", kind |-> "", name |-> "", namespace |-> "", rev |-> 0]

BadDoc == [valid |-> FALSE, obj |-> NoObject]

Docs == {GoodDoc(o) : o \in Objects} \cup {BadDoc}

\* An entry of the manifests file system (fs.DirEntry and the file's content).
FileEntry(n, docs) == [name |-> n, isDir |-> FALSE, docs |-> docs]

DirEntry(n) == [name |-> n, isDir |-> TRUE, docs |-> <<>>]

\* The manifests directories a run is given: one file of at most MaxDocs documents.
ManifestSources == {<<FileEntry("objects.yaml", d)>> : d \in SeqUpTo(Docs, MaxDocs)}

\* The names fs.ReadDir returns, sorted by file name as it returns them.
EntryNames == <<"00.yaml", "01.yaml", "02.yaml", "03.yaml">>

\* The files of the directories with several entries, by their documents:
\* well-formed ones in both orders, a malformed one alone, last and first.
LoaderFiles ==
    { <<>>, <<GoodDoc(Deployment)>>, <<BadDoc>>,
      <<GoodDoc(Deployment), GoodDoc(Service)>>, <<GoodDoc(Service), GoodDoc(Deployment)>>,
      <<GoodDoc(Deployment), BadDoc>>, <<BadDoc, GoodDoc(Service)>> }

\* What an entry can be: a directory, or one of the files.
EntryKinds == {[isDir |-> TRUE, docs |-> <<>>]} \cup {[isDir |-> FALSE, docs |-> d] : d \in LoaderFiles}

\* The manifests directories of at most MaxEntries entries.
LoaderSources ==
    UNION {{[i \in 1..n |-> IF c[i].isDir THEN DirEntry(EntryNames[i]) ELSE FileEntry(EntryNames[i], c[i].docs)] :
              c \in [1..n -> EntryKinds]} : n \in 0..MaxEntries}

\* A pod whose init container runs the bundle image; id is "" until the
\* kubelet has reported the image ID.
PodWith(id) == [InitContainerStatuses |-> <<[Image |-> BundleImage, ImageID |-> id]>>, ContainerStatuses |-> <<>>]

Pods == {PodWith(id) : id \in {"", Digest1, Digest2}}

\* ------------------------------------------------------------ pure functions

\* getImageDigest, after the pod was fetched: the first status of the image
\* with a non-empty image ID, init containers first.
RECURSIVE FirstImageID(_, _, _)
FirstImageID(statuses, image, i) ==
    IF i > Len(statuses) THEN ""
    ELSE IF statuses[i].Image = image /\ statuses[i].ImageID # "" THEN statuses[i].ImageID
    ELSE FirstImageID(statuses, image, i + 1)

ImageDigestOf(podv, image) ==
    LET a == FirstImageID(podv.InitContainerStatuses, image, 1)
        b == FirstImageID(podv.ContainerStatuses, image, 1)
    IN  IF a # "" THEN [err |-> Nil, digest |-> a]
        ELSE IF b # "" THEN [err |-> Nil, digest |-> b]
        ELSE [err |-> <<"image digest not found", image>>, digest |-> ""]

\* The decode loop as it would be if it skipped a malformed document and went on.
RECURSIVE DecodeDocsSkipping(_, _, _)
DecodeDocsSkipping(docs, i, acc) ==
    IF i > Len(docs) THEN [err |-> Nil, objects |-> acc]
    ELSE IF ~docs[i].valid THEN DecodeDocsSkipping(docs, i + 1, acc)
    ELSE DecodeDocsSkipping(docs, i + 1, Append(acc, docs[i].obj))

\* The decode loop of getObjects over one file: objects decoded so far, or the
\* error of the first malformed document.
RECURSIVE DecodeDocs(_, _, _)
DecodeDocs(docs, i, acc) ==
    IF i > Len(docs) THEN [err |-> Nil, objects |-> acc]
    ELSE IF ~docs[i].valid THEN [err |-> <<"decode">>, objects |-> <<>>]
    ELSE DecodeDocs(docs, i + 1, Append(acc, docs[i].obj))

\* The loop over the entries as it would be if a decode error returned the
\* objects read so far.
RECURSIVE ReadEntriesKeepsPartial(_, _, _)
ReadEntriesKeepsPartial(entries, i, acc) ==
    IF i > Len(entries) THEN [err |-> Nil, objects |-> acc]
    ELSE IF entries[i].isDir THEN ReadEntriesKeepsPartial(entries, i + 1, acc)
    ELSE LET r == DecodeDocs(entries[i].docs, 1, acc)
         IN  IF r.err # Nil THEN [err |-> r.err, objects |-> acc]
             ELSE ReadEntriesKeepsPartial(entries, i + 1, r.objects)

\* getObjects over the directory listing: directories are skipped, a decode
\* error returns nil objects and the decoder's error.
RECURSIVE ReadEntries(_, _, _)
ReadEntries(entries, i, acc) ==
    IF i > Len(entries) THEN [err |-> Nil, objects |-> acc]
    ELSE IF entries[i].isDir THEN ReadEntries(entries, i + 1, acc)
    ELSE LET r == DecodeDocs(entries[i].docs, 1, acc)
         IN  IF r.err # Nil THEN [err |-> r.err, objects |-> <<>>]
             ELSE ReadEntries(entries, i + 1, r.objects)

getObjects(fsys) == ReadEntries(fsys, 1, <<>>)

\* yaml.Marshal(obj): the canonical bytes, a function of the content alone.
Marshal(obj) == <<"yaml", obj.apiVersion, obj.kind, obj.name, obj.namespace, obj.rev>>

\* fmt.Sprintf("%x", sha256.Sum256(objData)): hex digits, here 10 of the 64.
\* Distinct contents have distinct digests; Deployment and DeploymentAlt share the
\* first 8 digits.
Sha256Hex(data) ==
    CASE data = Marshal(Deployment) -> <<"d", "e", "0", "1", "2", "3", "4", "5", "1", "1">>
      [] data = Marshal(DeploymentAlt) -> <<"d", "e", "0", "1", "2", "3", "4", "5", "2", "2">>
      [] data = Marshal(Service) -> <<"5", "e", "0", "1", "2", "3", "4", "5", "3", "3">>
      [] data = Marshal(ServiceEdited) -> <<"5", "f", "0", "1", "2", "3", "4", "5", "4", "4">>
      [] OTHER -> <<"0", "0", "0", "0", "0", "0", "0", "0", "0", "0">>

\* gzip of the canonical bytes.
Gzip(data) == <<"gzip", data>>

\* GroupVersionKind().ToAPIVersionAndKind(): (apiVersion, kind), in that order.
ToAPIVersionAndKind(obj) == <<obj.apiVersion, obj.kind>>

\* The labels as they would be if they did not name the Bundle.
getConfigMapLabelsShared(p) == "kuberpak.io/managed" :> "true"

\* getConfigMapLabels: the label set given to new ConfigMaps and used to list.
getConfigMapLabels(p) == "kuberpak.io/bundle-name" :> BundleNameOf(p)

\* The name as it would be with the whole digest in it.
ConfigMapNameFullHash(p, hash) == <<"bundle-object-">> \o BundleNameOf(p) \o <<"-">> \o hash

\* fmt.Sprintf("bundle-object-%s-%s", u.BundleName, hash[0:8]): the characters
\* of the name, the constant prefix as one.
ConfigMapName(p, hash) == <<"bundle-object-">> \o BundleNameOf(p) \o <<"-">> \o SubSeq(hash, 1, HashPrefixLen)

\* The ConfigMap getDesiredConfigMaps builds for one object.  The two results
\* of ToAPIVersionAndKind are bound to (kind, apiVersion), as line 209 does.
DesiredConfigMap(p, resolved, obj) ==
    LET objData == Marshal(obj)
        hash == Sha256Hex(objData)
        pair == ToAPIVersionAndKind(obj)
        kind == pair[1]
        apiVersion == pair[2]
    IN  [ Name |-> ConfigMapName(p, hash),
          Namespace |-> Namespace,
          Labels |-> getConfigMapLabels(p),
          Annotations |-> Nil,
          Immutable |-> TRUE,
          Data |-> ("bundle-image" :> resolved) @@ ("object-sha256" :> hash)
                   @@ ("object-kind" :> kind) @@ ("object-apiversion" :> apiVersion)
                   @@ ("object-name" :> obj.name) @@ ("object-namespace" :> obj.namespace),
          BinaryData |-> ("object" :> Gzip(objData)),
          Owner |-> BundleNameOf(p) ]

\* getDesiredConfigMaps: one ConfigMap per object, in order.
getDesiredConfigMaps(p, resolved, objs) == [i \in 1..Len(objs) |-> DesiredConfigMap(p, resolved, objs[i])]

\* stringMapsEqual / bytesMapsEqual: same size, and every key of a is in b with
\* the same value.
stringMapsEqual(a, b) ==
    /\ Cardinality(DOMAIN a) = Cardinality(DOMAIN b)
    /\ \A ka \in DOMAIN a : ka \in DOMAIN b /\ a[ka] = b[ka]

bytesMapsEqual(a, b) ==
    /\ Cardinality(DOMAIN a) = Cardinality(DOMAIN b)
    /\ \A ka \in DOMAIN a : ka \in DOMAIN b /\ a[ka] = b[ka]

\* The comparison as it would be without the line that compares Data.
SameContentNoData(ecm, cm) ==
    /\ stringMapsEqual(ecm.Labels, cm.Labels)
    /\ stringMapsEqual(ecm.Annotations, cm.Annotations)
    /\ bytesMapsEqual(ecm.BinaryData, cm.BinaryData)

\* The comparison of lines 248-251.
SameContent(ecm, cm) ==
    /\ stringMapsEqual(ecm.Labels, cm.Labels)
    /\ stringMapsEqual(ecm.Annotations, cm.Annotations)
    /\ stringMapsEqual(ecm.Data, cm.Data)
    /\ bytesMapsEqual(ecm.BinaryData, cm.BinaryData)

\* types.NamespacedName of a ConfigMap.
KeyOf(cm) == [Namespace |-> cm.Namespace, Name |-> cm.Name]

\* The map as it would be if the loop of lines 239-242 filled nothing in.
IndexByKeyEmpty(items) == [k \in {} |-> Nil]

\* The map built by lines 238-242 from the listed items.
IndexByKey(items) == [k \in {KeyOf(cm) : cm \in items} |-> CHOOSE cm \in items : KeyOf(cm) = k]

\* ------------------------------------------------------------ the API server

\* client.List with MatchingLabels and InNamespace.
ListConfigMaps(st, labels, ns) ==
    {st[k] : k \in {k2 \in DOMAIN st : st[k2].Namespace = ns /\ \A l \in DOMAIN labels : l \in DOMAIN st[k2].Labels /\ st[k2].Labels[l] = labels[l]}}

\* The store after a successful create / delete.
Created(st, cm) == (KeyOf(cm) :> cm) @@ st

Deleted(st, k) == [k2 \in DOMAIN st \ {k} |-> st[k2]]

\* What client.Delete answers when the call reaches the API server.
DeleteResult(st, k) == IF k \in DOMAIN st THEN Nil ELSE <<"NotFound">>

\* The error check as it would be without client.IgnoreNotFound.
IgnoreNothing(e) == e

\* client.IgnoreNotFound(err).
IgnoreNotFound(e) == IF e = <<"NotFound">> THEN Nil ELSE e

\* How the history names the answer of a Delete.
ResOf(e) == IF e = Nil THEN "ok" ELSE IF e = <<"NotFound">> THEN "notfound" ELSE "error"

\* ------------------------------------------------------------------- state

VARIABLES
    manifests,      \* u.Manifests: the entries of the manifests directory
    pod,            \* the status of the pod u.PodName
    bundles,        \* names of the Bundle objects that exist in the namespace
    store,          \* the ConfigMaps of the API server, by NamespacedName
    pc,             \* per process: where Run stands
    resolvedImage,  \* Run's resolvedImage
    objects,        \* Run's objects
    desired,        \* desiredConfigMaps
    actualCms,      \* the map actualCms of ensureDesiredConfigMaps
    idx,            \* position of the loop over desired (1-based)
    replaced,       \* the delete of line 255 was issued for desired[idx]
    swept,          \* keys of actualCms the loop of line 263 has visited
    err,            \* the error Run returned, Nil while there is none
    listed,         \* history: the items the List call of this run returned
    startStore,     \* history: the store when this run started
    ops,            \* history: the Create and Delete calls of this run
    afterAbort      \* history: the run before this one aborted after changing the store

env == <<manifests, pod, bundles>>

locals == <<resolvedImage, objects, desired, actualCms, idx, replaced, swept>>

vars == <<manifests, pod, bundles, store, pc, resolvedImage, objects, desired, actualCms, idx, replaced, swept, err, listed, startStore, ops, afterAbort>>

NotRunning == {"idle", "done", "failed"}

EmptyStore == [k \in {} |-> Nil]

\* The state when the first command starts, the manifests being one of
\* sources and the pod one of pods.
InitWith(sources, pods) ==
    /\ manifests \in sources
    /\ pod \in pods
    /\ bundles = {BundleNameOf(p) : p \in Procs}
    /\ store = EmptyStore
    /\ pc = [p \in Procs |-> "idle"]
    /\ resolvedImage = [p \in Procs |-> ""]
    /\ objects = [p \in Procs |-> <<>>]
    /\ desired = [p \in Procs |-> <<>>]
    /\ actualCms = [p \in Procs |-> EmptyStore]
    /\ idx = [p \in Procs |-> 1]
    /\ replaced = [p \in Procs |-> FALSE]
    /\ swept = [p \in Procs |-> {}]
    /\ err = [p \in Procs |-> Nil]
    /\ listed = [p \in Procs |-> {}]
    /\ startStore = [p \in Procs |-> EmptyStore]
    /\ ops = [p \in Procs |-> <<>>]
    /\ afterAbort = [p \in Procs |-> FALSE]

Init == InitWith(ManifestSources, Pods)

\* Run returns e from the statement `at`.
Fail(p, at, e) ==
    /\ pc' = [pc EXCEPT ![p] = "failed"]
    /\ err' = [err EXCEPT ![p] = [at |-> at, msg |-> e]]

\* A call of Create or Delete, as the history records it.
Op(kind, k, res, at) == [op |-> kind, key |-> k, res |-> res, at |-> at]

Logged(p, o) == ops' = [ops EXCEPT ![p] = Append(@, o)]

\* A new invocation of the command: Run starts with fresh locals.
Fresh(p) ==
    /\ resolvedImage' = [resolvedImage EXCEPT ![p] = ""]
    /\ objects' = [objects EXCEPT ![p] = <<>>]
    /\ desired' = [desired EXCEPT ![p] = <<>>]
    /\ actualCms' = [actualCms EXCEPT ![p] = EmptyStore]
    /\ idx' = [idx EXCEPT ![p] = 1]
    /\ replaced' = [replaced EXCEPT ![p] = FALSE]
    /\ swept' = [swept EXCEPT ![p] = {}]
    /\ listed' = [listed EXCEPT ![p] = {}]
    /\ startStore' = [startStore EXCEPT ![p] = store]
    /\ ops' = [ops EXCEPT ![p] = <<>>]
    /\ afterAbort' = [afterAbort EXCEPT ![p] = pc[p] = "failed" /\ store # startStore[p]]

\* Lines 94-98: u.Client.Get of the Bundle.
GetBundle(p) ==
    /\ pc[p] \in NotRunning
    /\ BundleNameOf(p) \in bundles
    /\ Fresh(p)
    /\ pc' = [pc EXCEPT ![p] = "getImageDigest"]
    /\ err' = [err EXCEPT ![p] = Nil]
    /\ UNCHANGED <<env, store>>

GetBundleFail(p) ==
    /\ pc[p] \in NotRunning
    /\ Fresh(p)
    /\ \E e \in {"RemoteIO"} \cup (IF BundleNameOf(p) \in bundles THEN {} ELSE {"NotFound"}) :
          Fail(p, "getBundle", <<e>>)
    /\ UNCHANGED <<env, store>>

\* Lines 100-104: getImageDigest (Get of the pod, then the status scan).
GetImageDigest(p) ==
    /\ pc[p] = "getImageDigest"
    /\ LET r == ImageDigestOf(pod, BundleImage)
       IN  /\ r.err = Nil
           /\ resolvedImage' = [resolvedImage EXCEPT ![p] = r.digest]
    /\ pc' = [pc EXCEPT ![p] = "getObjects"]
    /\ UNCHANGED <<env, store, objects, desired, actualCms, idx, replaced, swept, err, listed, startStore, ops, afterAbort>>

GetImageDigestFail(p) ==
    /\ pc[p] = "getImageDigest"
    /\ \/ Fail(p, "getImageDigest", <<"RemoteIO">>)
       \/ /\ ImageDigestOf(pod, BundleImage).err # Nil
          /\ Fail(p, "getImageDigest", ImageDigestOf(pod, BundleImage).err)
    /\ UNCHANGED <<env, store, locals, listed, startStore, ops, afterAbort>>

\* Lines 106-110: getObjects.
GetObjects(p) ==
    /\ pc[p] = "getObjects"
    /\ LET r == getObjects(manifests)
       IN  /\ r.err = Nil
           /\ objects' = [objects EXCEPT ![p] = r.objects]
    /\ pc' = [pc EXCEPT ![p] = "getDesired"]
    /\ UNCHANGED <<env, store, resolvedImage, desired, actualCms, idx, replaced, swept, err, listed, startStore, ops, afterAbort>>

GetObjectsFail(p) ==
    /\ pc[p] = "getObjects"
    /\ \/ Fail(p, "getObjects", <<"read manifests", "io">>)
       \/ /\ getObjects(manifests).err # Nil
          /\ Fail(p, "getObjects", getObjects(manifests).err)
    /\ UNCHANGED <<env, store, locals, listed, startStore, ops, afterAbort>>

\* Lines 123-127: getDesiredConfigMaps.
GetDesired(p) ==
    /\ pc[p] = "getDesired"
    /\ desired' = [desired EXCEPT ![p] = getDesiredConfigMaps(p, resolvedImage[p], objects[p])]
    /\ pc' = [pc EXCEPT ![p] = "list"]
    /\ UNCHANGED <<env, store, resolvedImage, objects, actualCms, idx, replaced, swept, err, listed, startStore, ops, afterAbort>>

\* Lines 195-207 and 229-231: an object that cannot be encoded or owned.
GetDesiredFail(p) ==
    /\ pc[p] = "getDesired"
    /\ objects[p] # <<>>
    /\ Fail(p, "getDesired", <<"set owner reference on configmap">>)
    /\ UNCHANGED <<env, store, locals, listed, startStore, ops, afterAbort>>

\* Lines 129-133 and 238-242: List by label and namespace, then the index.
ListActual(p) ==
    /\ pc[p] = "list"
    /\ LET items == ListConfigMaps(store, getConfigMapLabels(p), Namespace)
       IN  /\ listed' = [listed EXCEPT ![p] = items]
           /\ actualCms' = [actualCms EXCEPT ![p] = IndexByKey(items)]
    /\ pc' = [pc EXCEPT ![p] = "ensure"]
    /\ UNCHANGED <<env, store, resolvedImage, objects, desired, idx, replaced, swept, err, startStore, ops, afterAbort>>

ListActualFail(p) ==
    /\ pc[p] = "list"
    /\ Fail(p, "list", <<"RemoteIO">>)
    /\ UNCHANGED <<env, store, locals, listed, startStore, ops, afterAbort>>

\* The loop of line 244 stands at a ConfigMap of desired.
InLoop(p) == pc[p] = "ensure" /\ idx[p] <= Len(desired[p])

\* The equal branch as it would be without delete(actualCms, key).
EnsureKeepLeavesKey(p) ==
    /\ InLoop(p)
    /\ LET cm == desired[p][idx[p]]
           key == KeyOf(cm)
       IN  /\ key \in DOMAIN actualCms[p]
           /\ SameContent(actualCms[p][key], cm)
    /\ idx' = [idx EXCEPT ![p] = @ + 1]
    /\ UNCHANGED <<env, store, pc, resolvedImage, objects, desired, actualCms, replaced, swept, err, listed, startStore, ops, afterAbort>>

\* Lines 247-253: the existing ConfigMap has the desired content.
EnsureKeep(p) ==
    /\ InLoop(p)
    /\ LET cm == desired[p][idx[p]]
           key == KeyOf(cm)
       IN  /\ key \in DOMAIN actualCms[p]
           /\ SameContent(actualCms[p][key], cm)
           /\ actualCms' = [actualCms EXCEPT ![p] = Deleted(@, key)]
    /\ idx' = [idx EXCEPT ![p] = @ + 1]
    /\ UNCHANGED <<env, store, pc, resolvedImage, objects, desired, replaced, swept, err, listed, startStore, ops, afterAbort>>

\* Line 255 takes this branch for the ConfigMap at idx.
MustReplace(p) ==
    LET cm == desired[p][idx[p]]
        key == KeyOf(cm)
    IN  /\ key \in DOMAIN actualCms[p]
        /\ ~SameContent(actualCms[p][key], cm)
        /\ ~replaced[p]

\* Lines 255-257: delete the existing ConfigMap; the answer e of the API server
\* goes through client.IgnoreNotFound.
EnsureDelete(p) ==
    /\ InLoop(p)
    /\ MustReplace(p)
    /\ LET key == KeyOf(actualCms[p][KeyOf(desired[p][idx[p]])])
           e == DeleteResult(store, key)
       IN  /\ store' = Deleted(store, key)
           /\ Logged(p, Op("delete", key, ResOf(e), idx[p]))
           /\ IF IgnoreNotFound(e) # Nil
              THEN Fail(p, "ensure", <<"delete configmap">> \o e) /\ UNCHANGED replaced
              ELSE replaced' = [replaced EXCEPT ![p] = TRUE] /\ UNCHANGED <<pc, err>>
    /\ UNCHANGED <<env, resolvedImage, objects, desired, actualCms, idx, swept, listed, startStore, afterAbort>>

\* The Delete call fails before it takes effect.
EnsureDeleteFail(p) ==
    /\ InLoop(p)
    /\ MustReplace(p)
    /\ IgnoreNotFound(<<"RemoteIO">>) # Nil
    /\ Logged(p, Op("delete", KeyOf(desired[p][idx[p]]), ResOf(<<"RemoteIO">>), idx[p]))
    /\ Fail(p, "ensure", <<"delete configmap", "RemoteIO">>)
    /\ UNCHANGED <<env, store, locals, listed, startStore, afterAbort>>

\* The loop as it would be if it reached line 259 for every ConfigMap.
MustCreateAlways(p) == TRUE

\* Line 259 is reached for the ConfigMap at idx.
MustCreate(p) == KeyOf(desired[p][idx[p]]) \notin DOMAIN actualCms[p] \/ replaced[p]

\* The Create as it would be if it replaced a ConfigMap that is there.
EnsureCreateUpsert(p) ==
    /\ InLoop(p)
    /\ MustCreate(p)
    /\ LET cm == desired[p][idx[p]]
       IN  /\ store' = Created(store, cm)
           /\ Logged(p, Op("create", KeyOf(cm), "ok", idx[p]))
    /\ idx' = [idx EXCEPT ![p] = @ + 1]
    /\ replaced' = [replaced EXCEPT ![p] = FALSE]
    /\ UNCHANGED <<env, pc, resolvedImage, objects, desired, actualCms, swept, err, listed, startStore, afterAbort>>

\* Lines 259-261: create the desired ConfigMap.
EnsureCreate(p) ==
    /\ InLoop(p)
    /\ MustCreate(p)
    /\ LET cm == desired[p][idx[p]]
       IN  /\ KeyOf(cm) \notin DOMAIN store
           /\ store' = Created(store, cm)
           /\ Logged(p, Op("create", KeyOf(cm), "ok", idx[p]))
    /\ idx' = [idx EXCEPT ![p] = @ + 1]
    /\ replaced' = [replaced EXCEPT ![p] = FALSE]
    /\ UNCHANGED <<env, pc, resolvedImage, objects, desired, actualCms, swept, err, listed, startStore, afterAbort>>

\* A failed Create as it would be if the loop logged the error and went on.
EnsureCreateFailContinue(p) ==
    /\ InLoop(p)
    /\ MustCreate(p)
    /\ LET key == KeyOf(desired[p][idx[p]])
       IN  \/ /\ key \in DOMAIN store
              /\ Logged(p, Op("create", key, "exists", idx[p]))
           \/ Logged(p, Op("create", key, "error", idx[p]))
    /\ idx' = [idx EXCEPT ![p] = @ + 1]
    /\ replaced' = [replaced EXCEPT ![p] = FALSE]
    /\ UNCHANGED <<env, store, pc, resolvedImage, objects, desired, actualCms, swept, err, listed, startStore, afterAbort>>

\* Create fails: the key exists already, or the call itself fails.
EnsureCreateFail(p) ==
    /\ InLoop(p)
    /\ MustCreate(p)
    /\ LET key == KeyOf(desired[p][idx[p]])
       IN  \/ /\ key \in DOMAIN store
              /\ Logged(p, Op("create", key, "exists", idx[p]))
              /\ Fail(p, "ensure", <<"create configmap", "AlreadyExists">>)
           \/ /\ Logged(p, Op("create", key, "error", idx[p]))
              /\ Fail(p, "ensure", <<"create configmap", "RemoteIO">>)
    /\ UNCHANGED <<env, store, locals, listed, startStore, afterAbort>>

\* The sweep as it would be if it returned after its first Delete.
SweepLeftFirstOnly(p) == IF swept[p] = {} THEN DOMAIN actualCms[p] ELSE {}

\* The loop of line 263 runs: keys of actualCms it has not visited yet.
SweepLeft(p) == DOMAIN actualCms[p] \ swept[p]

InSweep(p) == pc[p] = "ensure" /\ idx[p] > Len(desired[p])

\* Lines 263-267: delete what is left in actualCms, in the map's order.
SweepDelete(p) ==
    /\ InSweep(p)
    /\ \E k \in SweepLeft(p) :
         LET key == KeyOf(actualCms[p][k])
             e == DeleteResult(store, key)
         IN  /\ store' = Deleted(store, key)
             /\ Logged(p, Op("delete", key, ResOf(e), idx[p]))
             /\ IF IgnoreNotFound(e) # Nil
                THEN Fail(p, "ensure", <<"delete configmap">> \o e) /\ UNCHANGED swept
                ELSE swept' = [swept EXCEPT ![p] = @ \cup {k}] /\ UNCHANGED <<pc, err>>
    /\ UNCHANGED <<env, resolvedImage, objects, desired, actualCms, idx, replaced, listed, startStore, afterAbort>>

SweepDeleteFail(p) ==
    /\ InSweep(p)
    /\ IgnoreNotFound(<<"RemoteIO">>) # Nil
    /\ \E k \in SweepLeft(p) : Logged(p, Op("delete", k, ResOf(<<"RemoteIO">>), idx[p]))
    /\ Fail(p, "ensure", <<"delete configmap", "RemoteIO">>)
    /\ UNCHANGED <<env, store, locals, listed, startStore, afterAbort>>

\* Line 268: return nil.
Return(p) ==
    /\ InSweep(p)
    /\ SweepLeft(p) = {}
    /\ pc' = [pc EXCEPT ![p] = "done"]
    /\ UNCHANGED <<env, store, locals, err, listed, startStore, ops, afterAbort>>

\* One step of the command run by process p.
Run(p) ==
    \/ GetBundle(p)
    \/ GetBundleFail(p)
    \/ GetImageDigest(p)
    \/ GetImageDigestFail(p)
    \/ GetObjects(p)
    \/ GetObjectsFail(p)
    \/ GetDesired(p)
    \/ GetDesiredFail(p)
    \/ ListActual(p)
    \/ ListActualFail(p)
    \/ EnsureKeep(p)
    \/ EnsureDelete(p)
    \/ EnsureDeleteFail(p)
    \/ EnsureCreate(p)
    \/ EnsureCreateFail(p)
    \/ SweepDelete(p)
    \/ SweepDeleteFail(p)
    \/ Return(p)

\* ------------------------------------------------------------ environment

Idle == \A p \in Procs : pc[p] \in NotRunning

\* The processes of the finished runs are gone: nothing of them is left.
Forgotten ==
    /\ pc' = [p \in Procs |-> "idle"]
    /\ resolvedImage' = [p \in Procs |-> ""]
    /\ objects' = [p \in Procs |-> <<>>]
    /\ desired' = [p \in Procs |-> <<>>]
    /\ actualCms' = [p \in Procs |-> EmptyStore]
    /\ idx' = [p \in Procs |-> 1]
    /\ replaced' = [p \in Procs |-> FALSE]
    /\ swept' = [p \in Procs |-> {}]
    /\ err' = [p \in Procs |-> Nil]
    /\ listed' = [p \in Procs |-> {}]
    /\ startStore' = [p \in Procs |-> EmptyStore]
    /\ ops' = [p \in Procs |-> <<>>]
    /\ afterAbort' = [p \in Procs |-> FALSE]

\* A Bundle of the unpackers that run is there to unpack.
Unpackable == \E p \in Single : BundleNameOf(p) \in bundles

\* The documents that occur in the manifests of sources.
DocsIn(sources) == UNION {UNION {{m[i].docs[j] : j \in DOMAIN m[i].docs} : i \in DOMAIN m} : m \in sources}

\* The document streams one edit away from docs: a document of universe
\* appended, a document removed, or a document replaced by one of universe.
EditsOf(docs, universe) ==
    {Append(docs, d) : d \in universe}
    \cup {SubSeq(docs, 1, i - 1) \o SubSeq(docs, i + 1, Len(docs)) : i \in DOMAIN docs}
    \cup {[docs EXCEPT ![i] = d] : i \in DOMAIN docs, d \in universe}

\* Between two runs the manifests of the bundle image change, by one edit of
\* one file, to another of sources.
EditManifestsIn(sources) ==
    /\ Idle
    /\ Unpackable
    /\ \E i \in DOMAIN manifests : \E e \in EditsOf(manifests[i].docs, DocsIn(sources)) :
         /\ ~manifests[i].isDir
         /\ manifests' = [manifests EXCEPT ![i].docs = e]
    /\ manifests' # manifests
    /\ manifests' \in sources
    /\ Forgotten
    /\ UNCHANGED <<pod, bundles, store>>

EditManifests == EditManifestsIn(ManifestSources)

\* Between two runs the pod reports another image ID for the bundle image.
UpdatePodStatus ==
    /\ Idle
    /\ Unpackable
    /\ pod' \in Pods \ {pod}
    /\ Forgotten
    /\ UNCHANGED <<manifests, bundles, store>>

\* The owner of the ConfigMaps, the Bundle, is deleted (it is not created again
\* under the same identity).
DeleteBundle(b) ==
    /\ b \in bundles
    /\ bundles' = bundles \ {b}
    /\ UNCHANGED <<manifests, pod, store, pc, locals, err, listed, startStore, ops, afterAbort>>

\* Line 229 makes the Bundle the controller of each ConfigMap: once the Bundle is
\* gone the API server's garbage collector removes them, one at a time.
GarbageCollect(k) ==
    /\ k \in DOMAIN store
    /\ store[k].Owner \notin bundles
    /\ store' = Deleted(store, k)
    /\ UNCHANGED <<env, pc, locals, err, listed, startStore, ops, afterAbort>>

\* ---------------------------------------------------------- specifications

\* One unpacker at a time for the Bundle, and nobody else writes its ConfigMaps.
Next ==
    \/ \E p \in Single : Run(p)
    \/ EditManifests
    \/ UpdatePodStatus

Spec == Init /\ [][Next]_vars

\* The command is invoked again and again, and a started run keeps going.
FairSpec == Spec /\ WF_vars(\E p \in Single : Run(p))

\* As Spec, and the Bundle may be deleted while the unpacker runs.
NextGC ==
    \/ Next
    \/ \E p \in Single : DeleteBundle(BundleNameOf(p))
    \/ \E k \in DOMAIN store : GarbageCollect(k)

SpecGC == Init /\ [][NextGC]_vars

\* The manifests of the specifications with two unpackers: nothing, the
\* Deployment, and the Deployment edited (same ConfigMap name, other content).
RaceSources ==
    {<<FileEntry("objects.yaml", d)>> : d \in {<<>>, <<GoodDoc(Deployment)>>, <<GoodDoc(DeploymentAlt)>>}}

\* The same, and the edited Deployment followed by the Service.
SameSources == RaceSources \cup {<<FileEntry("objects.yaml", <<GoodDoc(DeploymentAlt), GoodDoc(Service)>>)>>}

\* The command up to the return of getObjects, for every manifests directory
\* of LoaderSources; what follows getObjects is not followed here.
NextLoader ==
    \E p \in Single :
        \/ GetBundle(p)
        \/ GetBundleFail(p)
        \/ GetImageDigest(p)
        \/ GetImageDigestFail(p)
        \/ GetObjects(p)
        \/ GetObjectsFail(p)

SpecLoader == InitWith(LoaderSources, {PodWith(Digest1)}) /\ [][NextLoader]_vars

\* The manifests of the example: the Deployment and the Service, the Service
\* edited, the Service removed.
ScenarioSources ==
    {<<FileEntry("objects.yaml", d)>> : d \in
        {<<GoodDoc(Deployment), GoodDoc(Service)>>, <<GoodDoc(Deployment), GoodDoc(ServiceEdited)>>, <<GoodDoc(Deployment)>>}}

\* One unpacker at a time, the manifests going through those of the example.
NextScenario ==
    \/ \E p \in Single : Run(p)
    \/ EditManifestsIn(ScenarioSources)
    \/ UpdatePodStatus

SpecScenario == InitWith(ScenarioSources, Pods) /\ [][NextScenario]_vars

\* Two unpackers for two different Bundles of the namespace run at the same
\* time, their calls interleaved in any order.
NextOther ==
    \/ \E p \in OtherBundle : Run(p)
    \/ EditManifestsIn(RaceSources)

SpecOther == InitWith(RaceSources, {PodWith(Digest1)}) /\ [][NextOther]_vars

\* Two unpackers for the same Bundle run at the same time: nothing in the
\* command serializes them.
NextSame ==
    \/ \E p \in SameBundle : Run(p)
    \/ EditManifestsIn(SameSources)

SpecSame == InitWith(SameSources, {PodWith(Digest1)}) /\ [][NextSame]_vars

\* -------------------------------------------------------------- properties

\* The ConfigMaps of the store that carry the label of p's Bundle.
Labelled(p) == ListConfigMaps(store, getConfigMapLabels(p), Namespace)

Keys(cms) == {KeyOf(cm) : cm \in cms}

\* The desired list as a set, and its keys.
DesiredSet(p) == {desired[p][i] : i \in DOMAIN desired[p]}

DistinctKeys(seq) == \A i, j \in DOMAIN seq : KeyOf(seq[i]) = KeyOf(seq[j]) => i = j

\* Two ConfigMaps agree in labels, annotations, data and binary data.
ContentEq(a, b) ==
    /\ a.Labels = b.Labels
    /\ a.Annotations = b.Annotations
    /\ a.Data = b.Data
    /\ a.BinaryData = b.BinaryData

\* The set cms is exactly the desired list ds: every key of ds holds the content
\* of ds, and no other key is there.
EqualsDesired(cms, ds) ==
    /\ \A d \in ds : \E cm \in cms : KeyOf(cm) = KeyOf(d) /\ ContentEq(cm, d)
    /\ \A cm \in cms : \E d \in ds : KeyOf(cm) = KeyOf(d) /\ ContentEq(cm, d)

\* The calls of one kind on key k the run of p has issued.
Calls(p, kind, k) == {i \in DOMAIN ops[p] : ops[p][i].op = kind /\ ops[p][i].key = k}

\* ensureDesiredConfigMaps has been entered in the run of p.
Reconciling(p) == pc[p] \in {"ensure", "done"} \/ (pc[p] = "failed" /\ err[p].at = "ensure")

\* C1 (convergence): when ensureDesiredConfigMaps returns without error, the
\* store's ConfigMaps with the Bundle's label are exactly the desired list: every
\* desired key is present with the desired content and no other key remains.
C1_Convergence ==
    \A p \in Single : pc[p] = "done" => EqualsDesired(Labelled(p), DesiredSet(p))

\* C2 (idempotence): a run that lists exactly the desired set issues no create
\* and no delete and returns without error; and a key whose listed ConfigMap has
\* the content of the desired ConfigMaps of that key gets no call during the run.
C2_Idempotence ==
    \A p \in Single : Reconciling(p) =>
        /\ EqualsDesired(listed[p], DesiredSet(p)) => ops[p] = <<>> /\ pc[p] # "failed"
        /\ \A a \in listed[p] :
             (/\ \E d \in DesiredSet(p) : KeyOf(d) = KeyOf(a)
              /\ \A d \in DesiredSet(p) : KeyOf(d) = KeyOf(a) => ContentEq(a, d))
             => \A i \in DOMAIN ops[p] : ops[p][i].key # KeyOf(a)

\* C2 restricted to desired lists without a repeated key.
C2_IdempotenceDistinct ==
    \A p \in Single : DistinctKeys(desired[p]) => (Reconciling(p) =>
        /\ EqualsDesired(listed[p], DesiredSet(p)) => ops[p] = <<>> /\ pc[p] # "failed"
        /\ \A a \in listed[p] :
             (\E d \in DesiredSet(p) : KeyOf(d) = KeyOf(a) /\ ContentEq(a, d))
             => \A i \in DOMAIN ops[p] : ops[p][i].key # KeyOf(a))

\* Key k is listed and desired with another content (the replace case).
Replaced(p, k) ==
    /\ k \in Keys(listed[p])
    /\ \E d \in DesiredSet(p) : KeyOf(d) = k /\ ~ContentEq(IndexByKey(listed[p])[k], d)

\* C3 (safe replace ordering): for a key listed and desired with differing
\* content, the delete precedes the create, no delete of the key follows its
\* create in the same run, and from the create on the key holds the desired
\* ConfigMap until the run ends.
C3_SafeReplaceOrdering ==
    \A p \in Single : Reconciling(p) =>
        \A k \in Keys(listed[p]) : Replaced(p, k) =>
            \A i \in Calls(p, "create", k) : ops[p][i].res = "ok" =>
                /\ \E j \in Calls(p, "delete", k) : j < i
                /\ \A j \in Calls(p, "delete", k) : j < i
                /\ k \in DOMAIN store
                /\ ContentEq(store[k], desired[p][ops[p][i].at])

\* Keys the run listed that no desired ConfigMap has.
Stale(p) == Keys(listed[p]) \ Keys(DesiredSet(p))

\* C4 (garbage collection): in a run that completes without error every key
\* listed but not desired gets exactly one delete, and that delete is issued
\* after the loop over the desired list has processed every ConfigMap of it;
\* while the run lasts no such key gets a second delete or a delete from inside
\* the loop.
C4_GarbageCollection ==
    \A p \in Single : Reconciling(p) =>
        \A k \in Stale(p) :
            /\ Cardinality(Calls(p, "delete", k)) <= 1
            /\ \A i \in Calls(p, "delete", k) : ops[p][i].at > Len(desired[p])
            /\ pc[p] = "done" => Cardinality(Calls(p, "delete", k)) = 1 /\ k \notin DOMAIN store

C4_Witness ==
    \E p \in Single :
        /\ pc[p] = "done"
        /\ DesiredSet(p) # {}
        /\ \E k \in Stale(p) : \E i \in Calls(p, "delete", k) : ops[p][i].res = "ok"

\* C5 (minimal action set): in a run that completes without error over a
\* desired list with distinct keys, a key only desired gets one create, a key only
\* listed one delete, a key in both with equal content nothing, a key in both
\* with differing content one delete and one create; and when the sweep starts,
\* actualCms holds exactly the listed keys that are not desired.
C5_MinimalActions ==
    \A p \in Single : (Reconciling(p) /\ DistinctKeys(desired[p])) =>
        /\ pc[p] = "done" =>
             \A k \in Keys(listed[p]) \cup Keys(DesiredSet(p)) :
                LET creates == Cardinality(Calls(p, "create", k))
                    deletes == Cardinality(Calls(p, "delete", k))
                IN  IF k \notin Keys(listed[p]) THEN creates = 1 /\ deletes = 0
                    ELSE IF k \in Stale(p) THEN creates = 0 /\ deletes = 1
                    ELSE IF Replaced(p, k) THEN creates = 1 /\ deletes = 1
                    ELSE creates = 0 /\ deletes = 0
        /\ (pc[p] = "ensure" /\ InSweep(p)) => DOMAIN actualCms[p] = Stale(p)

\* The desired list the inputs of the moment give, when they give one.
InputsValid == ImageDigestOf(pod, BundleImage).err = Nil /\ getObjects(manifests).err = Nil

DesiredNow(p) == getDesiredConfigMaps(p, ImageDigestOf(pod, BundleImage).digest, getObjects(manifests).objects)

DesiredNowSet(p) == {DesiredNow(p)[i] : i \in DOMAIN DesiredNow(p)}

Converged(p) == InputsValid /\ EqualsDesired(Labelled(p), DesiredNowSet(p))

\* A step that changes the inputs of the runs, or in which a run aborts.
Disturbance == manifests' # manifests \/ pod' # pod \/ \E p \in Single : pc'[p] = "failed"

\* C6 (recovery by whole-run retry): with the command invoked again and again,
\* the same inputs giving a desired list of distinct keys, and a single writer,
\* once no run aborts any more the store's labelled ConfigMaps become the
\* desired list and stay so, whatever state earlier aborted runs left.
C6_RecoveryByRetry ==
    <>[][~Disturbance]_vars =>
        <>[](\A p \in Single : DistinctKeys(DesiredNow(p)) => Converged(p))

C6_Witness ==
    \E p \in Single :
        /\ pc[p] = "done"
        /\ afterAbort[p]
        /\ ops[p] # <<>>
        /\ DistinctKeys(DesiredNow(p))
        /\ DesiredNowSet(p) # {}
        /\ Converged(p)

\* The run of p has just issued a Delete that the API server answered with
\* not-found.
NotFoundStep(p) ==
    /\ Len(ops'[p]) = Len(ops[p]) + 1
    /\ Last(ops'[p]).op = "delete"
    /\ Last(ops'[p]).res = "notfound"

\* C7 (not-found on delete is success): a Delete of the loop or of the sweep that
\* finds its ConfigMap absent does not abort the run; the run goes on as after a
\* Delete that removed it: in the loop the Create of the same ConfigMap is next,
\* in the sweep the key counts as visited.
C7_NotFoundIsSuccess ==
    [][\A p \in Single : NotFoundStep(p) =>
          /\ pc'[p] = "ensure"
          /\ err'[p] = Nil
          /\ store' = store
          /\ idx'[p] = idx[p]
          /\ actualCms'[p] = actualCms[p]
          /\ IF InLoop(p)
             THEN replaced'[p] /\ swept'[p] = swept[p]
             ELSE replaced'[p] = replaced[p] /\ swept'[p] = swept[p] \cup {Last(ops'[p]).key}]_vars

C7_Witness ==
    \E p \in Single :
        /\ pc[p] = "done"
        /\ \E i, j \in DOMAIN ops[p] :
             /\ ops[p][i].res = "notfound" /\ ops[p][i].at <= Len(desired[p])
             /\ ops[p][j].res = "notfound" /\ ops[p][j].at > Len(desired[p])
        /\ \E i \in DOMAIN ops[p] : ops[p][i].op = "create" /\ ops[p][i].res = "ok"

\* The run of p has just issued a call that failed.
FailedCallStep(p) ==
    /\ Len(ops'[p]) = Len(ops[p]) + 1
    /\ Last(ops'[p]).res \in {"error", "exists"}

\* C8 (abort on first store error, no rollback): a Create that fails, or a
\* Delete that fails with something else than not-found, makes the run return an
\* error; the failing call leaves the store as it was, no Create or Delete follows
\* it in the run, and what the run applied before stays applied.
C8_AbortOnFirstError ==
    /\ [](\A p \in Single : \A i \in DOMAIN ops[p] :
            ops[p][i].res \in {"error", "exists"} => i = Len(ops[p]) /\ pc[p] = "failed" /\ err[p] # Nil)
    /\ [][\A p \in Single :
            /\ FailedCallStep(p) => store' = store /\ pc'[p] = "failed"
            /\ pc[p] = "failed" => store' = store]_vars

C8_Witness ==
    \E p \in Single :
        /\ pc[p] = "failed"
        /\ Len(ops[p]) >= 2
        /\ Last(ops[p]).res \in {"error", "exists"}
        /\ store # startStore[p]

\* Some document of the manifests is malformed.
HasMalformed(fsys) == \E i \in DOMAIN fsys : ~fsys[i].isDir /\ \E j \in DOMAIN fsys[i].docs : ~fsys[i].docs[j].valid

\* Run has not reached ensureDesiredConfigMaps, or returned before reaching it.
BeforeEnsure(p) ==
    \/ pc[p] \in {"getImageDigest", "getObjects", "getDesired", "list"}
    \/ pc[p] = "failed" /\ err[p].at # "ensure"

\* C9 (no mutation before the desired set is complete): a run in which getting
\* the Bundle, resolving the digest, loading the manifests, building the desired
\* ConfigMaps or listing the actual ones fails issues no Create and no Delete and
\* leaves the store as it found it; and manifests with a malformed document never
\* get past getObjects.
C9_NoMutationBeforeEnsure ==
    \A p \in Single :
        /\ BeforeEnsure(p) => ops[p] = <<>> /\ store = startStore[p]
        /\ pc[p] \in {"getDesired", "list", "ensure", "done"} => ~HasMalformed(manifests)
        /\ (pc[p] = "failed" /\ err[p].at \in {"getDesired", "list", "ensure"}) => ~HasMalformed(manifests)

C9_Witness ==
    \E p \in Single :
        /\ pc[p] = "failed"
        /\ err[p].at = "getObjects"
        /\ HasMalformed(manifests)
        /\ \E i \in DOMAIN manifests : Len(manifests[i].docs) >= 2 /\ manifests[i].docs[1].valid
        /\ store # EmptyStore

\* C10 (duplicate keys are a fatal build error): a desired list in which two
\* ConfigMaps share a key is never handed to ensureDesiredConfigMaps (nor to the
\* List call before it): getDesiredConfigMaps fails instead.
C10_DuplicateKeysAreFatal ==
    \A p \in Single :
        (pc[p] \in {"list", "ensure", "done"} \/ (pc[p] = "failed" /\ err[p].at \in {"list", "ensure"}))
            => DistinctKeys(desired[p])

\* getDesiredConfigMaps has returned in the run of p: desired[p] is its result
\* for objects[p] and resolvedImage[p].
Built(p) == pc[p] \in {"list", "ensure", "done"} \/ (pc[p] = "failed" /\ err[p].at \in {"list", "ensure"})

\* C11 (textual metadata matches the source object): the ConfigMap built for
\* an object has data["object-kind"] the object's kind, data["object-apiversion"]
\* its apiVersion, data["object-name"] and data["object-namespace"] its name and
\* namespace, data["object-sha256"] the full hex digest of its bytes and
\* data["bundle-image"] the resolved image digest.
C11_MetadataMatchesObject ==
    \A p \in Single : Built(p) =>
        /\ Len(desired[p]) = Len(objects[p])
        /\ \A i \in DOMAIN desired[p] :
             LET data == desired[p][i].Data
                 obj == objects[p][i]
             IN  /\ data["object-kind"] = obj.kind
                 /\ data["object-apiversion"] = obj.apiVersion
                 /\ data["object-name"] = obj.name
                 /\ data["object-namespace"] = obj.namespace
                 /\ data["object-sha256"] = Sha256Hex(Marshal(obj))
                 /\ data["bundle-image"] = resolvedImage[p]

\* C11 without the two entries line 209 feeds: these four hold.
C11_OtherMetadata ==
    \A p \in Single : Built(p) =>
        /\ Len(desired[p]) = Len(objects[p])
        /\ \A i \in DOMAIN desired[p] :
             LET data == desired[p][i].Data
                 obj == objects[p][i]
             IN  /\ data["object-name"] = obj.name
                 /\ data["object-namespace"] = obj.namespace
                 /\ data["object-sha256"] = Sha256Hex(Marshal(obj))
                 /\ data["bundle-image"] = resolvedImage[p]

\* The store that results from items when the calls of log that took effect
\* are applied in order.
RECURSIVE Replay(_, _, _, _)
Replay(st, log, ds, i) ==
    IF i > Len(log) THEN st
    ELSE IF log[i].res # "ok" THEN Replay(st, log, ds, i + 1)
    ELSE IF log[i].op = "delete" THEN Replay(Deleted(st, log[i].key), log, ds, i + 1)
    ELSE Replay(Created(st, ds[log[i].at]), log, ds, i + 1)

\* The names getDesiredConfigMaps can give the ConfigMaps of p's Bundle.
NamesOf(p) == {ConfigMapName(p, Sha256Hex(Marshal(o))) : o \in Objects \cup {ServiceEdited}}

\* ConfigMap cm is of the Bundle of p: by its label, or by its name.
BelongsTo(cm, p) ==
    \/ \A l \in DOMAIN getConfigMapLabels(p) : l \in DOMAIN cm.Labels /\ cm.Labels[l] = getConfigMapLabels(p)[l]
    \/ cm.Name \in NamesOf(p)

\* The run of p has just issued a Create or a Delete.
CallStep(p) == Len(ops'[p]) = Len(ops[p]) + 1

\* C12 (independence of different Bundles): with the runs for two Bundles of one
\* namespace interleaved in any order, the names of the two Bundles' ConfigMaps
\* never coincide, no call of a run has the key of a ConfigMap of the other
\* Bundle (by its name or by the label of what the store holds there), a step
\* of one run leaves the other Bundle's labelled ConfigMaps as they are, and
\* from its List on the labelled ConfigMaps of a run's Bundle are what the run
\* listed with its own calls applied, as in a run alone.
C12_IndependentBundles ==
    /\ [](\A p \in OtherBundle : \A q \in OtherBundle \ {p} :
            /\ NamesOf(p) \cap NamesOf(q) = {}
            /\ \A i \in DOMAIN ops[p] :
                 /\ ops[p][i].key.Name \notin NamesOf(q)
                 /\ ops[p][i].key \notin Keys(Labelled(q))
            /\ \A cm \in Labelled(p) : ~BelongsTo(cm, q)
            /\ Reconciling(p) => Labelled(p) = {Replay(IndexByKey(listed[p]), ops[p], desired[p], 1)[k] :
                                                  k \in DOMAIN Replay(IndexByKey(listed[p]), ops[p], desired[p], 1)})
    /\ [][\A p \in OtherBundle : \A q \in OtherBundle \ {p} :
            (CallStep(p) \/ pc'[p] # pc[p]) => Labelled(q)' = Labelled(q)]_vars

C12_Witness ==
    /\ \A p \in OtherBundle : pc[p] = "ensure" /\ Labelled(p) # {}
    /\ \E i \in DOMAIN ops[1] : ops[1][i].op = "delete" /\ ops[1][i].res = "ok"
    /\ \E i \in DOMAIN ops[2] : ops[2][i].op = "create" /\ ops[2][i].res = "ok"
    /\ \E i \in DOMAIN ops[2] : ops[2][i].op = "delete" /\ ops[2][i].res = "ok"

\* The manifests of the example, by the documents of their one file.
ScenarioManifests(docs) == <<FileEntry("objects.yaml", docs)>>

\* The store that holds exactly the ConfigMaps p desires for the objects objs
\* under the image the pod reports now.
StoreOf(p, objs) ==
    LET ds == getDesiredConfigMaps(p, ImageDigestOf(pod, BundleImage).digest, objs)
    IN  [k \in {KeyOf(ds[i]) : i \in DOMAIN ds} |-> CHOOSE cm \in {ds[i] : i \in DOMAIN ds} : KeyOf(cm) = k]

\* The calls of one kind the run of p has issued.
CallsOfKind(p, kind) == {i \in DOMAIN ops[p] : ops[p][i].op = kind}

\* The run of p is one of the example: it started from the store `from`, has
\* returned without error, and the manifests hold the documents docs.
ScenarioRun(p, from, docs) ==
    /\ pc[p] = "done"
    /\ manifests = ScenarioManifests(docs)
    /\ startStore[p] = from

\* The run of p issued c creates and d deletes, all answered with success, and
\* left the n ConfigMaps desired for objs in the store.
ScenarioOutcome(p, c, d, n, objs) ==
    /\ Cardinality(CallsOfKind(p, "create")) = c
    /\ Cardinality(CallsOfKind(p, "delete")) = d
    /\ \A i \in DOMAIN ops[p] : ops[p][i].res = "ok"
    /\ Cardinality(DOMAIN store) = n
    /\ Cardinality(Labelled(p)) = n
    /\ store = StoreOf(p, objs)
    /\ EqualsDesired(Labelled(p), DesiredSet(p))

\* C13 (the example as a sequence of runs): from the empty store, error-free
\* runs for {Deployment, Service}, the same again, {Deployment, Service edited}
\* and {Deployment}, each starting from the store the one before left, issue
\* 2 creates and 0 deletes, nothing, 1 create and 1 delete (of the ConfigMap
\* named by the old Service hash), 0 creates and 1 delete, and leave 2, 2, 2 and 1
\* ConfigMaps, each time exactly the desired ones.
C13_ExampleScenario ==
    \A p \in Single :
        /\ ScenarioRun(p, EmptyStore, <<GoodDoc(Deployment), GoodDoc(Service)>>)
             => ScenarioOutcome(p, 2, 0, 2, <<Deployment, Service>>)
        /\ ScenarioRun(p, StoreOf(p, <<Deployment, Service>>), <<GoodDoc(Deployment), GoodDoc(Service)>>)
             => ScenarioOutcome(p, 0, 0, 2, <<Deployment, Service>>)
        /\ ScenarioRun(p, StoreOf(p, <<Deployment, Service>>), <<GoodDoc(Deployment), GoodDoc(ServiceEdited)>>)
             => /\ ScenarioOutcome(p, 1, 1, 2, <<Deployment, ServiceEdited>>)
                /\ \A i \in CallsOfKind(p, "delete") :
                     ops[p][i].key.Name = ConfigMapName(p, Sha256Hex(Marshal(Service)))
                /\ \A i \in CallsOfKind(p, "create") :
                     ops[p][i].key.Name = ConfigMapName(p, Sha256Hex(Marshal(ServiceEdited)))
        /\ ScenarioRun(p, StoreOf(p, <<Deployment, ServiceEdited>>), <<GoodDoc(Deployment)>>)
             => /\ ScenarioOutcome(p, 0, 1, 1, <<Deployment>>)
                /\ \A i \in CallsOfKind(p, "delete") :
                     ops[p][i].key.Name = ConfigMapName(p, Sha256Hex(Marshal(ServiceEdited)))

\* The last run of the example has returned.
C13_Witness ==
    \E p \in Single :
        /\ ScenarioRun(p, StoreOf(p, <<Deployment, ServiceEdited>>), <<GoodDoc(Deployment)>>)
        /\ ~afterAbort[p]
        /\ Cardinality(DOMAIN store) = 1

\* The label key that carries the identity of the Bundle.
BundleNameLabel == "kuberpak.io/bundle-name"

\* name is "bundle-object-", the Bundle name b, "-" and the first 8 characters
\* of hash, in that order and nothing else.
WellFormedName(name, b, hash) ==
    /\ Len(name) = 1 + Len(b) + 1 + 8
    /\ name[1] = "bundle-object-"
    /\ \A j \in 1..Len(b) : name[1 + j] = b[j]
    /\ name[2 + Len(b)] = "-"
    /\ \A j \in 1..8 : name[2 + Len(b) + j] = hash[j]

\* C14 (shape of the desired list): for n objects getDesiredConfigMaps returns
\* n ConfigMaps in the order of the objects, the i-th named "bundle-object-" +
\* Bundle name + "-" + the first 8 hex characters of the i-th object's hash, in
\* the Bundle's namespace, with the one label that names the Bundle (the label
\* set the List call selects by, so that a created ConfigMap is listed), and
\* marked immutable.
C14_DesiredShape ==
    \A p \in Single : Built(p) =>
        /\ Len(desired[p]) = Len(objects[p])
        /\ \A i \in DOMAIN desired[p] :
             LET cm == desired[p][i]
             IN  /\ WellFormedName(cm.Name, BundleNameOf(p), Sha256Hex(Marshal(objects[p][i])))
                 /\ cm.Namespace = Namespace
                 /\ DOMAIN cm.Labels = {BundleNameLabel}
                 /\ cm.Labels[BundleNameLabel] = BundleNameOf(p)
                 /\ cm.Labels = getConfigMapLabels(p)
                 /\ ListConfigMaps(Created(EmptyStore, cm), getConfigMapLabels(p), Namespace) = {cm}
                 /\ cm.Immutable = TRUE

C14_Witness ==
    \E p \in Single :
        /\ Built(p)
        /\ Len(desired[p]) = 2
        /\ desired[p][1].Name # desired[p][2].Name
        /\ desired[p][1].Data["object-sha256"] # desired[p][2].Data["object-sha256"]

\* The objects of all documents of all files of fsys, in entry order and in
\* document order within a file.
RECURSIVE AllObjects(_)
AllObjects(fsys) ==
    IF fsys = <<>> THEN <<>>
    ELSE (IF Head(fsys).isDir THEN <<>> ELSE [j \in DOMAIN Head(fsys).docs |-> Head(fsys).docs[j].obj])
         \o AllObjects(Tail(fsys))

\* Entry i is the first file with a malformed document, and document j its
\* first malformed one.
FirstMalformed(fsys, i, j) ==
    /\ ~fsys[i].isDir
    /\ ~fsys[i].docs[j].valid
    /\ \A j2 \in 1..(j - 1) : fsys[i].docs[j2].valid
    /\ \A i2 \in 1..(i - 1) : fsys[i2].isDir \/ \A j2 \in DOMAIN fsys[i2].docs : fsys[i2].docs[j2].valid

\* fsys up to document j of entry i: what follows is cut off.
UpTo(fsys, i, j) == [i2 \in 1..i |-> IF i2 < i THEN fsys[i2] ELSE [fsys[i] EXCEPT !.docs = SubSeq(@, 1, j)]]

\* getObjects has returned objects and no error in the run of p.
Loaded(p) == pc[p] = "getDesired"

\* getObjects has returned the decoder's error in the run of p.
DecodeFailed(p) == pc[p] = "failed" /\ err[p].at = "getObjects" /\ err[p].msg # <<"read manifests", "io">>

\* C15 (result of the manifest loader): with no malformed document getObjects
\* returns the objects of all documents of all non-directory entries, in entry
\* order and document order, directories adding nothing; with a malformed
\* document in some non-directory entry it returns an error and no objects, and
\* the result is that of the source cut off after the first malformed document.
C15_LoaderResult ==
    /\ ~HasMalformed(manifests) =>
         /\ getObjects(manifests).err = Nil
         /\ getObjects(manifests).objects = AllObjects(manifests)
    /\ HasMalformed(manifests) =>
         /\ getObjects(manifests).err # Nil
         /\ getObjects(manifests).objects = <<>>
         /\ \A i \in DOMAIN manifests : \A j \in DOMAIN manifests[i].docs :
              FirstMalformed(manifests, i, j) => getObjects(UpTo(manifests, i, j)) = getObjects(manifests)
    /\ \A p \in Single :
         /\ Loaded(p) => ~HasMalformed(manifests) /\ objects[p] = AllObjects(manifests)
         /\ DecodeFailed(p) => HasMalformed(manifests) /\ objects[p] = <<>>
         /\ (pc[p] = "failed" /\ err[p].at = "getObjects") => objects[p] = <<>>

\* A directory before a file is skipped and the two documents of the file come
\* in their order.
C15_Witness ==
    \E p \in Single :
        /\ Loaded(p)
        /\ Len(manifests) = 2
        /\ manifests[1].isDir
        /\ Len(objects[p]) = 2
        /\ objects[p][1] # objects[p][2]

\* A run has failed on a malformed document that follows well-formed ones, in
\* the second of two files.
C15_FailureReached ==
    \E p \in Single :
        /\ DecodeFailed(p)
        /\ Len(manifests) = 2
        /\ ~manifests[1].isDir /\ Len(manifests[1].docs) = 1 /\ manifests[1].docs[1].valid
        /\ ~manifests[2].isDir /\ Len(manifests[2].docs) = 2 /\ manifests[2].docs[1].valid

\* C16 (decode errors identify their source): the error getObjects returns for
\* a malformed document carries the name of the entry that holds the document.
C16_DecodeErrorNamesSource ==
    \A p \in Single : DecodeFailed(p) =>
        \E i \in DOMAIN manifests :
            /\ \E j \in DOMAIN manifests[i].docs : FirstMalformed(manifests, i, j)
            /\ \E k \in DOMAIN err[p].msg : err[p].msg[k] = manifests[i].name

\* The run of p has ended.
Ended(p) == pc[p] \in {"done", "failed"}

\* The Delete calls of the loop over desired (line 255) on key k that removed
\* a ConfigMap.
LoopDeletes(p, k) == {i \in Calls(p, "delete", k) : ops[p][i].res = "ok" /\ ops[p][i].at <= Len(desired[p])}

\* The run of p has just issued a Delete that the API server carried out.
DeleteStep(p) == CallStep(p) /\ Last(ops'[p]).op = "delete" /\ Last(ops'[p]).res = "ok"

\* C17 (same-Bundle race without a lock): with two runs for one Bundle
\* interleaved, a Create that finds its key present aborts its run with an
\* error and changes nothing; for a desired list of distinct keys that key was
\* not listed by the run, or was deleted by it before, so another run put the
\* ConfigMap there; and a Delete removes whatever ConfigMap is at its key,
\* the one another run has just created included.  The races themselves (both
\* runs creating one key, a Delete removing the ConfigMap the other run
\* created, a key of the desired list missing after both runs) are the state of
\* C17_Witness.
C17_SameBundleRace ==
    /\ [](\A p \in SameBundle : \A i \in DOMAIN ops[p] : ops[p][i].res = "exists" =>
            /\ ops[p][i].op = "create"
            /\ i = Len(ops[p])
            /\ pc[p] = "failed"
            /\ err[p] = [at |-> "ensure", msg |-> <<"create configmap", "AlreadyExists">>]
            /\ DistinctKeys(desired[p]) =>
                 \/ ops[p][i].key \notin Keys(listed[p])
                 \/ \E j \in Calls(p, "delete", ops[p][i].key) : j < i /\ ops[p][j].res \in {"ok", "notfound"})
    /\ [][\A p \in SameBundle :
            /\ (CallStep(p) /\ Last(ops'[p]).res = "exists") => store' = store /\ Last(ops'[p]).key \in DOMAIN store
            /\ DeleteStep(p) => Last(ops'[p]).key \in DOMAIN store /\ store' = Deleted(store, Last(ops'[p]).key)]_vars

\* Both runs have ended: one aborted by a Create on a key the other had
\* created, both deleted a ConfigMap at the same key inside the loop (so one
\* removed what the other created), and a key of the desired list is missing.
C17_Witness ==
    \E p \in SameBundle : \E q \in SameBundle \ {p} :
        /\ pc[p] = "failed"
        /\ ops[p] # <<>>
        /\ Last(ops[p]).res = "exists"
        /\ \E i \in DOMAIN ops[q] : ops[q][i].op = "create" /\ ops[q][i].res = "ok" /\ ops[q][i].key = Last(ops[p]).key
        /\ pc[q] = "done"
        /\ desired[p] = desired[q]
        /\ DistinctKeys(desired[p])
        /\ \E k \in Keys(DesiredSet(p)) : LoopDeletes(p, k) # {} /\ LoopDeletes(q, k) # {}
        /\ \E k \in Keys(DesiredSet(p)) : k \notin DOMAIN store

\* C18 (ConfigMaps are never changed in place): no step takes a key of the
\* store from one ConfigMap to a different one; the content at a key changes
\* only through a state in which the key is absent.
C18_NeverMutatedInPlace ==
    [][\A k \in DOMAIN store \cap DOMAIN store' : store'[k] = store[k]]_vars

\* A key holds another content than when the run started: the run deleted the
\* old ConfigMap and then created the new one.
C18_Witness ==
    \E p \in Single : \E k \in DOMAIN store \cap DOMAIN startStore[p] :
        /\ ~ContentEq(store[k], startStore[p][k])
        /\ \E i \in Calls(p, "delete", k) : \E j \in Calls(p, "create", k) :
             i < j /\ ops[p][i].res = "ok" /\ ops[p][j].res = "ok"

\* C19 (creates never hit a live key under a single writer): with one run in
\* flight, which listed the store's labelled ConfigMaps, and a desired list of
\* distinct keys, no Create is answered with already-exists and no run aborts
\* for it: every Create that was issued found its key absent, a key that was
\* never listed or that the run had deleted before.
C19_CreatesFindKeyAbsent ==
    \A p \in Single : DistinctKeys(desired[p]) =>
        /\ \A i \in DOMAIN ops[p] : ops[p][i].res # "exists"
        /\ pc[p] = "failed" => err[p].msg # <<"create configmap", "AlreadyExists">>
        /\ \A i \in CallsOfKind(p, "create") : ops[p][i].res = "ok" =>
             \/ ops[p][i].key \notin Keys(listed[p])
             \/ \E j \in Calls(p, "delete", ops[p][i].key) : j < i /\ ops[p][j].res \in {"ok", "notfound"}

\* A run over distinct keys has created one ConfigMap at a key it had listed
\* and deleted, and one at a key it had not listed.
C19_Witness ==
    \E p \in Single :
        /\ DistinctKeys(desired[p])
        /\ pc[p] \in {"ensure", "done"}
        /\ \E i, j \in CallsOfKind(p, "create") :
             /\ ops[p][i].res = "ok" /\ ops[p][i].key \in Keys(listed[p])
             /\ ops[p][j].res = "ok" /\ ops[p][j].key \notin Keys(listed[p])

====
